---- MODULE Spec2Model ----
(***************************************************************************)
(* Model of app.py, a Streamlit page script.  Streamlit executes the whole *)
(* script from top to bottom once per user event (a button press or a      *)
(* committed widget edit); st.session_state and the files on disk survive  *)
(* from one execution to the next.  Each action below is one such          *)
(* execution; the script is the composition of its segments, in source     *)
(* order.  The events of the latest execution are kept in `trace'.         *)
(***************************************************************************)
EXTENDS Integers, Sequences, FiniteSets, TLC

VARIABLES
    secrets,          \* names present in st.secrets (fixed per deployment)
    gemini_input,     \* value of sidebar input "Enter Gemini API Key:"
    stability_input,  \* value of sidebar input "Enter Stability API Key:"
    manual_prompt,    \* value of text input "Enter your prompt here:"
    widgets,          \* widgets the latest execution put on the page
    session_state,    \* st.session_state: a function on the keys present
    disk,             \* temporary files existing on disk
    trigger,          \* event that caused the latest execution
    prior,            \* session_state when the latest execution started
    trace,            \* events of the latest execution, in order
    status,           \* how the latest execution ended
    temp_audio_path   \* file created by the latest voice handler (0: none)

vars == <<secrets, gemini_input, stability_input, manual_prompt, widgets,
          session_state, disk, trigger, prior, trace, status, temp_audio_path>>

----------------------------------------------------------------------------
(* Bounds and value sets *)

MaxTempFiles == 1

TempNames == 1..MaxTempFiles

CouldNotUnderstand == "Could not understand audio"

ApiUnavailable == "API unavailable"

ErrorRecording == "Error recording audio. Please try again."

Sentinels == {CouldNotUnderstand, ApiUnavailable, ErrorRecording}

Fallback == "Could not retrieve information at this time."

None == "None"

PlainPrompts == {"a red bicycle", "a cat"}

\* texts a user can type or the recognizer can return; one of them is equal to
\* a sentinel string
Prompts == PlainPrompts \cup {ApiUnavailable}

Keys == {"sk"}

Bitmaps == {"bitmap A", "bitmap B"}

Replies == {"summary A"}

SecretNames == {"GEMINI_API_KEY", "STABILITY_API_KEY"}

GeminiWidget == "Enter Gemini API Key:"

StabilityWidget == "Enter Stability API Key:"

PromptWidget == "Enter your prompt here:"

VoiceButton == "Record Voice Command"

TextButton == "Generate from Text"

\* outcomes of the capture-and-transcribe step
CaptureOutcomes ==
    {[kind |-> k, text |-> ""] :
        k \in {"tempfile_error", "microphone_error", "write_error",
               "audiofile_error", "unknown_value", "request_error"}}
    \cup {[kind |-> "recognized", text |-> t] : t \in Prompts}

\* outcomes of the image service: a decoded bitmap, or an error (a non-200
\* status, or an exception in the request or in decoding; both give None)
ImageOutcomes == Bitmaps \cup {"error"}

\* outcomes of the description service: a reply text or an exception
InfoOutcomes == Replies \cup {"error"}

----------------------------------------------------------------------------
(* Execution record and events *)

Ev(op, key, val, line) == [op |-> op, key |-> key, val |-> val, line |-> line]

Emit(m, e) == [m EXCEPT !.trace = Append(@, e)]

Render(m, w) == [m EXCEPT !.widgets = @ \cup {w}]

\* st.session_state.<k> = v
SetState(m, k, v, line) ==
    [m EXCEPT !.trace = Append(@, Ev("write", k, v, line)),
              !.ss = (k :> v) @@ @]

\* st.stop()
Stop(m, line) ==
    [m EXCEPT !.trace = Append(@, Ev("stop", "st.stop", "", line)),
              !.status = "stopped"]

\* an exception nothing catches ends the script execution
Raise(m, what, line) ==
    [m EXCEPT !.trace = Append(@, Ev("raise", what, "", line)),
              !.status = "raised"]

\* the script execution as it starts: the persistent state, the widget values
\* of this execution, nothing rendered yet
Start(gi, si, mp) ==
    [ss |-> session_state, disk |-> disk, trace |-> <<>>,
     status |-> "running", widgets |-> {}, path |-> 0, ret |-> None,
     gemini_input |-> gi, stability_input |-> si, manual_prompt |-> mp]

----------------------------------------------------------------------------
(* Script segments *)

\* lines 16-23
GeminiKeyConfig(m) ==
    IF "GEMINI_API_KEY" \in secrets THEN m
    ELSE LET m1 == Render(m, GeminiWidget)
         IN  IF m1.gemini_input = "" THEN Stop(m1, 23) ELSE m1

\* lines 32-42: the text returned, or an exception raised
transcribe_audio(c) ==
    CASE c.kind = "recognized"    -> [raised |-> FALSE, text |-> c.text]
      [] c.kind = "unknown_value" -> [raised |-> FALSE, text |-> CouldNotUnderstand]
      [] c.kind = "request_error" -> [raised |-> FALSE, text |-> ApiUnavailable]
      [] OTHER                    -> [raised |-> TRUE, text |-> ""]

\* variant: the missing key is reported but the execution is not stopped
StabilityKey_NoStop(m) ==
    IF "STABILITY_API_KEY" \in secrets THEN m
    ELSE IF StabilityWidget \in m.widgets
         THEN Raise(m, "DuplicateWidgetID", 51)
         ELSE Render(m, StabilityWidget)

\* lines 47-54: the Stability key, from the secrets or from the sidebar
\* input; a second sidebar input of the same label in one execution is
\* rejected by Streamlit with an exception
StabilityKey(m) ==
    IF "STABILITY_API_KEY" \in secrets THEN m
    ELSE IF StabilityWidget \in m.widgets
         THEN Raise(m, "DuplicateWidgetID", 51)
         ELSE LET m1 == Render(m, StabilityWidget)
              IN  IF m1.stability_input = "" THEN Stop(m1, 54) ELSE m1

\* lines 45-87; site is the line of the call
generate_image(m, prompt, site, o) ==
    LET m0 == StabilityKey(Emit(m, Ev("call", "generate_image", prompt, site)))
    IN  IF m0.status # "running" THEN m0
        ELSE LET m1 == Emit(m0, Ev("http", "stability", prompt, 74))
                 r  == IF o \in Bitmaps THEN o ELSE None
             IN  [Emit(m1, Ev("return", "generate_image", r, site))
                     EXCEPT !.ret = r]

\* variant: the exception of the description service is not caught
get_information_Propagates(m, prompt, site, o) ==
    LET m0 == Emit(m, Ev("call", "get_information", prompt, site))
        m1 == Emit(m0, Ev("http", "gemini", prompt, 92))
    IN  IF o = "error"
        THEN Raise(Emit(m1, Ev("fail", "gemini", prompt, site)),
                   "Exception", 92)
        ELSE [Emit(m1, Ev("return", "get_information", o, site))
                 EXCEPT !.ret = o]

\* lines 90-96
get_information(m, prompt, site, o) ==
    LET m0 == Emit(m, Ev("call", "get_information", prompt, site))
        m1 == Emit(m0, Ev("http", "gemini", prompt, 92))
    IN  IF o = "error"
        THEN LET m2 == Emit(m1, Ev("fail", "gemini", prompt, site))
             IN  [Emit(m2, Ev("return", "get_information", Fallback, site))
                     EXCEPT !.ret = Fallback]
        ELSE [Emit(m1, Ev("return", "get_information", o, site))
                 EXCEPT !.ret = o]

\* lines 116-138, the body of the 'Record Voice Command' handler
RecordVoiceCommand(m, c) ==
    LET m0     == Render(m, VoiceButton)
        free   == TempNames \ m0.disk
        name   == CHOOSE n \in free : \A k \in free : n <= k
        failed(mm) == SetState(mm, "transcription", ErrorRecording, 138)
    IN  IF c.kind = "tempfile_error" \/ free = {}
        THEN failed(m0)
        ELSE LET m1 == [m0 EXCEPT !.disk = @ \cup {name}, !.path = name]
                 t  == transcribe_audio(c)
             IN  IF c.kind \in {"microphone_error", "write_error"} \/ t.raised
                 THEN failed(m1)
                 ELSE [SetState(m1, "transcription", t.text, 134)
                          EXCEPT !.disk = @ \ {name}]

\* variant: the capture error string is missing from the list
Gated_TwoSentinels(t) == t \in {CouldNotUnderstand, ApiUnavailable}

\* variant: no check at all
Gated_Never(t) == FALSE

\* variant: only the capture error string is checked
Gated_OnlyCaptureError(t) == t = ErrorRecording

\* line 145: the transcription is one of the three error strings
Gated(t) == t \in Sentinels

\* lines 116 and 141-151
VoiceInput(m, pressed, c, io, fo) ==
    IF m.status # "running" THEN m
    ELSE LET m0 == IF pressed THEN RecordVoiceCommand(m, c)
                   ELSE Render(m, VoiceButton)
         IN  IF "transcription" \notin DOMAIN m0.ss THEN m0
             ELSE LET t  == m0.ss["transcription"]
                      m1 == Emit(m0, Ev("render", "transcription", t, 143))
                  IN  IF Gated(t) THEN m1
                      ELSE LET g == generate_image(m1, t, 148, io)
                           IN  IF g.status # "running" THEN g
                               ELSE LET m2 == SetState(g, "image", g.ret, 148)
                                        h  == get_information(m2, t, 151, fo)
                                    IN  SetState(h, "info", h.ret, 151)

\* lines 153-164
Results(m) ==
    IF m.status # "running" THEN m
    ELSE LET m0 == Emit(m, Ev("render", "Results", "", 154))
             m1 == IF "image" \in DOMAIN m0.ss /\ m0.ss["image"] # None
                   THEN Emit(m0, Ev("render", "image", m0.ss["image"], 159))
                   ELSE m0
         IN  IF "info" \in DOMAIN m1.ss
             THEN Emit(m1, Ev("render", "info", m1.ss["info"], 164))
             ELSE m1

\* lines 166-174
ManualText(m, pressed, io, fo) ==
    IF m.status # "running" THEN m
    ELSE LET m0 == Render(Render(m, PromptWidget), TextButton)
         IN  IF ~pressed \/ m0.manual_prompt = "" THEN m0
             ELSE LET p  == m0.manual_prompt
                      m1 == SetState(m0, "transcription", p, 172)
                      g  == generate_image(m1, p, 173, io)
                  IN  IF g.status # "running" THEN g
                      ELSE LET m2 == SetState(g, "image", g.ret, 173)
                               h  == get_information(m2, p, 174, fo)
                           IN  SetState(h, "info", h.ret, 174)

\* variant: the manual handler placed before the Results column
Script_ManualFirst(m, button, e) ==
    LET a == GeminiKeyConfig(m)
        b == VoiceInput(a, button = "voice", e.capture, e.io1, e.fo1)
        c == ManualText(b, button = "manual", e.io2, e.fo2)
    IN  Results(c)

\* the whole script, lines 1-174
Script(m, button, e) ==
    LET a == GeminiKeyConfig(m)
        b == VoiceInput(a, button = "voice", e.capture, e.io1, e.fo1)
        c == Results(b)
    IN  ManualText(c, button = "manual", e.io2, e.fo2)

\* a widget the execution did not render loses its value
Kept(m, w, v) == IF w \in m.widgets THEN v ELSE ""

EndStatus(m) == IF m.status = "running" THEN "done" ELSE m.status

----------------------------------------------------------------------------
(* Actions: one script execution per user event *)

Finish(m, trig) ==
    /\ session_state' = m.ss
    /\ disk' = m.disk
    /\ widgets' = m.widgets
    /\ gemini_input' = Kept(m, GeminiWidget, m.gemini_input)
    /\ stability_input' = Kept(m, StabilityWidget, m.stability_input)
    /\ manual_prompt' = Kept(m, PromptWidget, m.manual_prompt)
    /\ trigger' = trig
    /\ prior' = session_state
    /\ trace' = m.trace
    /\ status' = EndStatus(m)
    /\ temp_audio_path' = m.path
    /\ UNCHANGED secrets

DefaultCapture == [kind |-> "unknown_value", text |-> ""]

\* press of 'Record Voice Command'
PressRecordVoice ==
    /\ VoiceButton \in widgets
    /\ \E c \in CaptureOutcomes, io \in ImageOutcomes, fo \in InfoOutcomes :
         LET e == [capture |-> c, io1 |-> io, fo1 |-> fo,
                   io2 |-> io, fo2 |-> fo]
         IN  Finish(Script(Start(gemini_input, stability_input, manual_prompt),
                           "voice", e), "voice")

\* press of 'Generate from Text'
PressGenerateFromText ==
    /\ TextButton \in widgets
    /\ \E io1 \in ImageOutcomes, fo1 \in InfoOutcomes,
          io2 \in ImageOutcomes, fo2 \in InfoOutcomes :
         LET e == [capture |-> DefaultCapture, io1 |-> io1, fo1 |-> fo1,
                   io2 |-> io2, fo2 |-> fo2]
         IN  Finish(Script(Start(gemini_input, stability_input, manual_prompt),
                           "manual", e), "manual")

\* an execution no button caused: the user committed a new widget value
Rerun(gi, si, mp) ==
    \E io \in ImageOutcomes, fo \in InfoOutcomes :
        LET e == [capture |-> DefaultCapture, io1 |-> io, fo1 |-> fo,
                  io2 |-> io, fo2 |-> fo]
        IN  Finish(Script(Start(gi, si, mp), "none", e), "none")

EditGeminiKey ==
    /\ GeminiWidget \in widgets
    /\ \E k \in (Keys \cup {""}) \ {gemini_input} :
         Rerun(k, stability_input, manual_prompt)

EditStabilityKey ==
    /\ StabilityWidget \in widgets
    /\ \E k \in (Keys \cup {""}) \ {stability_input} :
         Rerun(gemini_input, k, manual_prompt)

EditManualPrompt ==
    /\ PromptWidget \in widgets
    /\ \E p \in (Prompts \cup {""}) \ {manual_prompt} :
         Rerun(gemini_input, stability_input, p)

\* the state after the page's first load: one execution with no event, from
\* an empty session
Init ==
    /\ secrets \in SUBSET SecretNames
    /\ LET m == Script([ss |-> <<>>, disk |-> {}, trace |-> <<>>,
                        status |-> "running", widgets |-> {}, path |-> 0,
                        ret |-> None, gemini_input |-> "",
                        stability_input |-> "", manual_prompt |-> ""],
                       "none",
                       [capture |-> DefaultCapture, io1 |-> "error",
                        fo1 |-> "error", io2 |-> "error",
                        fo2 |-> "error"])
       IN  /\ session_state = m.ss
           /\ disk = m.disk
           /\ widgets = m.widgets
           /\ gemini_input = ""
           /\ stability_input = ""
           /\ manual_prompt = ""
           /\ trigger = "none"
           /\ prior = <<>>
           /\ trace = m.trace
           /\ status = EndStatus(m)
           /\ temp_audio_path = 0

Next ==
    \/ PressRecordVoice
    \/ PressGenerateFromText
    \/ EditGeminiKey
    \/ EditStabilityKey
    \/ EditManualPrompt

Spec == Init /\ [][Next]_vars

\* a deployment with both keys in st.secrets: no sidebar key input is ever
\* rendered
InitConfigured == Init /\ secrets = SecretNames

NextConfigured ==
    \/ PressRecordVoice
    \/ PressGenerateFromText
    \/ EditManualPrompt

SpecConfigured == InitConfigured /\ [][NextConfigured]_vars

----------------------------------------------------------------------------
(* Vocabulary of the properties: all about the latest execution *)

Idx == 1..Len(trace)

IsCall(e) == e.op = "call"

\* positions of the calls of adapter fn
CallsOf(fn) == {i \in Idx : trace[i].op = "call" /\ trace[i].key = fn}

\* positions of the calls of adapter fn with argument p
CallsWith(fn, p) == {i \in CallsOf(fn) : trace[i].val = p}

AdapterCalls == CallsOf("generate_image") \cup CallsOf("get_information")

\* positions of the writes of session_state[k]
WritesOf(k) == {i \in Idx : trace[i].op = "write" /\ trace[i].key = k}

\* the value of session_state[k] just before event i: a singleton, or empty
\* when the key is absent
ValueAt(k, i) ==
    LET ws == {j \in WritesOf(k) : j < i}
    IN  IF ws # {}
        THEN {trace[CHOOSE j \in ws : \A h \in ws : h <= j].val}
        ELSE IF k \in DOMAIN prior THEN {prior[k]} ELSE {}

\* the transcripts the latest execution wrote to session_state.transcription
Transcripts == {trace[i].val : i \in WritesOf("transcription")}

\* the voice handler ran in the latest execution
VoiceRun == trigger = "voice" /\ Transcripts # {}

\* the manual handler ran in the latest execution
ManualRun == trigger = "manual" /\ Transcripts # {}

----------------------------------------------------------------------------
(* Properties *)

\* C1 (as stated): in a run triggered by either button, a transcript equal to
\* a sentinel string means neither generate_image nor get_information is
\* invoked in that run.
C1_Original ==
    (trigger \in {"voice", "manual"} /\ Transcripts \cap Sentinels # {})
        => AdapterCalls = {}

\* C1 (amended): in a run triggered by 'Record Voice Command', a transcript
\* equal to a sentinel string means neither generate_image nor
\* get_information is invoked in that run, and no service request is made.
C1_VoiceSentinelSkips ==
    (VoiceRun /\ Transcripts \cap Sentinels # {})
        => /\ AdapterCalls = {}
           /\ \A i \in Idx : trace[i].op # "http"

\* a voice run that ended in a sentinel while an earlier run's results exist
C1_Witness ==
    /\ VoiceRun
    /\ Transcripts = {ErrorRecording}
    /\ "image" \in DOMAIN prior
    /\ status = "done"

\* C2 (as stated): in a run whose transcript is non-empty and not a sentinel,
\* generate_image and get_information are each invoked exactly once for that
\* transcript, and generate_image returns before get_information is called.
C2_Original ==
    \A p \in Transcripts \ (Sentinels \cup {""}) :
        /\ Cardinality(CallsWith("generate_image", p)) = 1
        /\ Cardinality(CallsWith("get_information", p)) = 1
        /\ \A c \in CallsWith("get_information", p) :
             \E r \in Idx : /\ r < c
                            /\ trace[r].op = "return"
                            /\ trace[r].key = "generate_image"

\* C3 (as stated): the execution caused by a button press makes at most one
\* generate_image call and at most one get_information call, and an
\* execution no button caused makes none.
C3_Original ==
    /\ Cardinality(CallsOf("generate_image")) <= 1
    /\ Cardinality(CallsOf("get_information")) <= 1
    /\ trigger = "none" => AdapterCalls = {}

\* C4 (as stated): after the voice handler finishes, the temporary file it
\* created does not exist, on every exit path.
C4_Original == VoiceRun => temp_audio_path \notin disk

\* C5 (as stated): every write to session_state.image or session_state.info
\* happens while session_state.transcription is present and is not a
\* sentinel string.
C5_Original ==
    \A i \in WritesOf("image") \cup WritesOf("info") :
        /\ ValueAt("transcription", i) # {}
        /\ ValueAt("transcription", i) \cap Sentinels = {}

\* C5 (amended): every write to session_state.image or session_state.info
\* happens while session_state.transcription is present and equal to the
\* prompt the adapter was called with; for the writes of the transcription
\* gate (lines 148, 151) it is not a sentinel string, for the writes of the
\* 'Generate from Text' handler (lines 173, 174) it is the typed prompt.
C5_WritesUnderTranscription ==
    \A i \in WritesOf("image") \cup WritesOf("info") :
        /\ ValueAt("transcription", i) # {}
        /\ trace[i].line \in {148, 151}
             => ValueAt("transcription", i) \cap Sentinels = {}
        /\ trace[i].line \in {173, 174}
             => ValueAt("transcription", i) = {manual_prompt}
        /\ \E c \in AdapterCalls :
             /\ c < i
             /\ trace[c].line = trace[i].line
             /\ ValueAt("transcription", i) = {trace[c].val}

\* the gate wrote both results in an execution that started from a sentinel
\* transcription
C5_Witness ==
    /\ VoiceRun
    /\ "transcription" \in DOMAIN prior
    /\ prior["transcription"] \in Sentinels
    /\ \E i \in WritesOf("image") : trace[i].line = 148
    /\ \E i \in WritesOf("info") : trace[i].line = 151

\* the adapter calls of an execution, in order, each with its argument
CallSeq(tr) ==
    LET c == SelectSeq(tr, IsCall)
    IN  [i \in 1..Len(c) |-> <<c[i].key, c[i].val>>]

\* C6 (as stated): from any session state, a 'Generate from Text' submission
\* of p causes the same sequence of adapter calls, with the same arguments,
\* as a 'Record Voice Command' press whose transcription yields p.
C6_Original ==
    (manual_prompt # "" /\ {VoiceButton, TextButton} \subseteq widgets)
        => \A io1 \in ImageOutcomes, fo1 \in InfoOutcomes,
              io2 \in ImageOutcomes, fo2 \in InfoOutcomes :
             LET m == Start(gemini_input, stability_input, manual_prompt)
                 heard == [kind |-> "recognized", text |-> manual_prompt]
                 ev == [capture |-> heard, io1 |-> io1, fo1 |-> fo1,
                        io2 |-> io2, fo2 |-> fo2]
                 em == [capture |-> DefaultCapture, io1 |-> io1,
                        fo1 |-> fo1, io2 |-> io2, fo2 |-> fo2]
             IN  CallSeq(Script(m, "manual", em).trace)
                    = CallSeq(Script(m, "voice", ev).trace)

\* no Stability key: not in the secrets, and the sidebar input is empty
NoStabilityKey ==
    "STABILITY_API_KEY" \notin secrets /\ stability_input = ""

\* C7: when generate_image is entered with no Stability key available, the
\* execution is stopped right there and no request to the image service is
\* made in it.
C7_MissingKeyHalts ==
    NoStabilityKey
        => /\ \A i \in Idx :
                ~(trace[i].op = "http" /\ trace[i].key = "stability")
           /\ \A i \in CallsOf("generate_image") :
                /\ Len(trace) = i + 1
                /\ trace[i + 1] = Ev("stop", "st.stop", "", 54)
                /\ status = "stopped"

\* generate_image was entered without a key, from the 'Generate from Text'
\* handler
C7_Witness ==
    /\ NoStabilityKey
    /\ \E i \in CallsOf("generate_image") : trace[i].line = 173

\* C8: when the description service fails, get_information returns the fixed
\* text, that text is written to session_state.info, and the execution goes
\* on: after the gate's call the Results column shows the text, after the
\* manual handler's call the script ends normally.
C8_DescriptionFailureMasked ==
    \A i \in Idx :
        trace[i].op = "fail" =>
            /\ i + 2 <= Len(trace)
            /\ trace[i + 1] =
                 Ev("return", "get_information", Fallback, trace[i].line)
            /\ trace[i + 2] = Ev("write", "info", Fallback, trace[i].line)
            /\ \A j \in Idx : trace[j].op = "raise" => trace[j].line = 51
            /\ trace[i].line = 151
                 => \E j \in Idx : /\ j > i + 2
                                   /\ trace[j] = Ev("render", "info", Fallback, 164)
            /\ trace[i].line = 174
                 => status = "done" /\ session_state["info"] = Fallback

\* the description service failed in the manual handler's call
C8_Witness ==
    /\ ManualRun
    /\ \E i \in Idx : trace[i].op = "fail" /\ trace[i].line = 174
    /\ status = "done"

\* C9: a voice run whose transcript is a sentinel string leaves
\* session_state.image and session_state.info as they were, present or
\* absent, and writes session_state.transcription only.
C9_SkippedRunKeepsResults ==
    (VoiceRun /\ Transcripts \cap Sentinels # {})
        => /\ \A i \in Idx :
                trace[i].op = "write" => trace[i].key = "transcription"
           /\ DOMAIN session_state = DOMAIN prior \cup {"transcription"}
           /\ \A k \in DOMAIN prior \ {"transcription"} :
                session_state[k] = prior[k]

\* a skipped voice run after a run that produced an image and a description
C9_Witness ==
    /\ VoiceRun
    /\ Transcripts \cap Sentinels # {}
    /\ {"image", "info"} \subseteq DOMAIN prior
    /\ prior["image"] \in Bitmaps
    /\ prior["transcription"] \notin Sentinels
    /\ session_state["image"] = prior["image"]

\* positions of the events of the 'Generate from Text' handler
ManualEvents == {i \in Idx : trace[i].line \in {172, 173, 174}}

\* what the Results column shows of session_state[k] when rendered from the
\* state at event i
Shown(k, i) == ValueAt(k, i) \ (IF k = "image" THEN {None} ELSE {})

\* C10: in an execution in which the 'Generate from Text' handler runs, the
\* Results column is rendered before the handler's first write and before
\* its adapter calls; it shows the session state as it stood before the
\* handler ran, and nothing is rendered after the handler's writes.
C10_ResultsBeforeManualRun ==
    ManualRun =>
        LET first == CHOOSE i \in ManualEvents : \A j \in ManualEvents : i <= j
        IN  /\ trace[first] = Ev("write", "transcription", manual_prompt, 172)
            /\ \E r \in Idx : r < first /\ trace[r].key = "Results"
            /\ \A j \in Idx : trace[j].op = "render" => j < first
            /\ \A k \in {"image", "info"} :
                 {trace[j].val : j \in {h \in Idx : /\ trace[h].op = "render"
                                                   /\ trace[h].key = k}}
                    = Shown(k, first)

\* the manual handler replaced an image that the same execution had rendered
C10_Witness ==
    /\ ManualRun
    /\ status = "done"
    /\ \E j \in Idx : /\ trace[j].op = "render"
                      /\ trace[j].key = "image"
                      /\ trace[j].val # session_state["image"]
    /\ session_state["image"] \in Bitmaps

====
